---- MODULE Spec2Model ----
(***************************************************************************)
(* GrandmaTVController: the device-control orchestration of core.py        *)
(* (TVController, WakeOnLanService, execute_action_with_retry) and the     *)
(* front-ends that drive it (web_server.handle_action, the chat-bot's      *)
(* _execute_action).                                                        *)
(*                                                                         *)
(* One step of the model is what one coroutine does between two            *)
(* suspension points (an awaited device call or an awaited sleep): asyncio *)
(* runs that stretch of code without interleaving.  The outcome of an      *)
(* awaited call (success, or the class of the exception it raises) is the  *)
(* environment's choice.                                                   *)
(***************************************************************************)
EXTENDS Integers, Sequences, FiniteSets, TLC

VARIABLES
    inv,    \* per invocation: the locals of the handler / orchestrator call
    lock,   \* web_server._action_lock (an asyncio.Lock)
    store,  \* the file config.yml
    cfg,    \* the configuration dictionary loaded at start-up
    env     \* the exceptions and re-pairings the environment may still cause,
            \* and whether it records the device's side of the conversation

vars == <<inv, lock, store, cfg, env>>

----------------------------------------------------------------------------
(* Bounds of the model *)

MaxFaults == 2      \* exceptions the environment injects in one invocation
MaxRekeys == 2      \* connects on which the device reports another key
NumReq == 2         \* HTTP requests in flight together
WebFaults == 2      \* exceptions injected while the web server is observed
FrontFaults == 1    \* exceptions injected while two front-ends are observed
WebRekeys == 0      \* re-pairings while the web server is observed
SaveFaults == 1     \* failures of the file I/O while the key file is observed
BotFaults == 1      \* exceptions injected while the chat-bot is observed
KeyFaults == 1      \* exceptions injected while re-pairing is observed
KeyRekeys == 1      \* re-pairings while the web server's requests are observed

(* Program constants *)

Repeat == 3         \* wake_device(..., repeat=3)

NoKey == "None"
Keys == {"k1", "k2"}
NoMac == ""
Macs == {NoMac, "aa:bb"}

\* chat ids of senders, and the values of telegram.allowed_chat_ids
ChatIds == {1, 2}
AllowLists == {{}, {1}}

----------------------------------------------------------------------------
(* The action catalog, core.py ACTIONS (a reserved word of the language,    *)
(* hence Actions).  Delays are in tenths of a second.                      *)

ActionStep(t, v, d) == [type |-> t, value |-> v, delay |-> d]

ChannelSequence(digit) ==
    << ActionStep("BTN", "HOME", 10),
       ActionStep("APP", "cz.tmobile.tvgo", 100),
       ActionStep("BTN", "RIGHT", 10),
       ActionStep("BTN", "ENTER", 10),
       ActionStep("BTN", digit, 10),
       ActionStep("BTN", "ENTER", 10),
       ActionStep("BTN", "ENTER", 10),
       ActionStep("BTN", "RIGHT", 10),
       ActionStep("BTN", "ENTER", 0) >>

Actions == [channel_1 |-> ChannelSequence("1"), channel_2 |-> ChannelSequence("2")]

CatalogNames == DOMAIN Actions

\* the action names a caller passes: the two synthetic ones, the catalog, one absent
ActionNames == {"turn_on", "turn_off", "channel_1", "channel_2", "channel_9"}

----------------------------------------------------------------------------
(* Exceptions: the class of a raised exception and Python's isinstance.    *)

ErrKinds == {"WSMessageTypeError", "TimeoutError", "ConnectionRefusedError",
             "ConnectionResetError", "ValueError"}
SaveErrKinds == {"PermissionError", "YAMLError"}
SendErrKinds == {"PermissionError", "ValueError"}

Bases(k) ==
    CASE k = "WSMessageTypeError"     -> {"WSMessageTypeError", "TypeError", "Exception"}
      [] k = "TimeoutError"           -> {"TimeoutError", "OSError", "Exception"}
      [] k = "ConnectionRefusedError" -> {"ConnectionRefusedError", "ConnectionError",
                                          "OSError", "Exception"}
      [] k = "ConnectionResetError"   -> {"ConnectionResetError", "ConnectionError",
                                          "OSError", "Exception"}
      [] k = "PermissionError"        -> {"PermissionError", "OSError", "Exception"}
      [] k = "YAMLError"              -> {"YAMLError", "Exception"}
      [] k = "ValueError"             -> {"ValueError", "Exception"}
      [] OTHER                        -> {}

IsInstance(k, classes) == Bases(k) \cap classes # {}

\* a classifier for which every exception means "the TV is off"
AnyErrorIsOff(e) == TRUE

\* core.py: the helper of execute_action_with_retry
is_tv_off_error(e) ==
    IsInstance(e, {"WSMessageTypeError", "TimeoutError", "OSError", "ConnectionError"})

\* a handler that catches only socket errors lets every other class escape
ExceptOSErrorOnly(e) == IsInstance(e, {"OSError"})

\* core.py: every handler of execute_action_with_retry is `except Exception`
ExceptException(e) == IsInstance(e, {"Exception"})

----------------------------------------------------------------------------
(* Processes.  A process is one invocation; its first component names the  *)
(* front-end that makes it.                                                *)

CoreProcs == {<<"core", 1>>}
HttpProcs == {<<"http", i>> : i \in 1..NumReq}
BotProcs == {<<"bot", 1>>}
Procs == CoreProcs \cup HttpProcs \cup BotProcs

Front(p) == p[1]

\* the locals of an invocation before it starts
Idle ==
    [front   |-> "none",   \* the front-end that makes the invocation
     pc      |-> "idle",
     act     |-> "none",   \* action_name
     run     |-> 0,        \* run_sequence / turn_off attempts started
     idx     |-> 0,        \* the step of the sequence in flight
     pkts    |-> 0,        \* magic packets sent by the wake in progress
     wakes   |-> 0,        \* calls of wake_device
     sess    |-> <<>>,     \* the controllers created, the last is `controller`
     cfgkey  |-> NoKey,    \* TVConfig.client_key
     calls   |-> <<>>,     \* the device calls issued, in order
     notes   |-> <<>>,     \* what connect found and did, and after how many calls
     result  |-> "none",   \* the status returned
     err     |-> "none",   \* the exception named in the status
     err1    |-> "none",   \* the exception that ended the first attempt
     resp    |-> 0,        \* HTTP status of the response
     chat    |-> 0]        \* the chat the command came from

\* a handler of a front-end has answered: its locals are gone, the answer stays
Answered(s, result, status) ==
    [Idle EXCEPT !.front = s.front, !.pc = "done",
                 !.result = result, !.resp = status]

\* a world: the invocation's locals, the file, the lock, the environment
World(p) == [s |-> inv[p], st |-> store, lk |-> lock, en |-> env]

----------------------------------------------------------------------------
(* Dictionaries (the parsed YAML file) *)

EmptyDict == [x \in {} |-> NoKey]

\* a dictionary made of the one entry
DictOnly(d, k, v) == [x \in {k} |-> v]

\* data[k] = v
DictSet(d, k, v) == [x \in (DOMAIN d) \cup {k} |-> IF x = k THEN v ELSE d[x]]

----------------------------------------------------------------------------
(* Helpers on worlds *)

Cur(w) == w.s.sess[Len(w.s.sess)]
SetConn(w, b) == [w EXCEPT !.s.sess[Len(w.s.sess)].conn = b]
SetKey(w, k)  == [w EXCEPT !.s.sess[Len(w.s.sess)].key = k]
Goto(w, pc) == [w EXCEPT !.s.pc = pc]

\* a device call is issued on the current controller's client; the device's
\* side of the conversation is kept when the environment records it
Call(w, op, val) ==
    IF w.en.observe
    THEN [w EXCEPT !.s.calls = Append(@, [sid |-> Len(w.s.sess), op |-> op, val |-> val])]
    ELSE w

\* what a controller's connect found or did, kept likewise: `at` is the
\* number of device calls issued before it
Note(w, ev, val) ==
    IF w.en.observe
    THEN [w EXCEPT !.s.notes = Append(@, [sid |-> Len(w.s.sess), ev |-> ev,
                                          val |-> val, at |-> Len(w.s.calls)])]
    ELSE w

\* the exception that ended the first attempt, kept likewise
FirstError(w, e) ==
    IF w.en.observe THEN [w EXCEPT !.s.err1 = e, !.s.err = "none"]
    ELSE [w EXCEPT !.s.err = "none"]

\* an exception propagates out of the code that was running
Raise(w, k) == [w EXCEPT !.s.pc = "exc", !.s.err = k]
\* ... one the environment injected
Fault(w, k) == [Raise(w, k) EXCEPT !.en.faults = @ - 1]

\* execute_action_with_retry returns a status
Return(w, msg) == [w EXCEPT !.s.pc = "ret", !.s.result = msg]

Sequence(w) == IF w.s.act \in CatalogNames THEN Actions[w.s.act] ELSE <<>>

----------------------------------------------------------------------------
(* core.py TVController *)

\* TVConfig(ip, mac, client_key, ...): a new configuration object
TVConfig(w, client_key) == [w EXCEPT !.s.cfgkey = client_key]

\* TVController.__init__: a new controller with a fresh client
TVController(w) ==
    [w EXCEPT !.s.sess = Append(@, [key |-> w.s.cfgkey, conn |-> FALSE])]

\* a _save_key that logs a failure of the file I/O and returns
_save_key_tolerant(w, key, save) ==
    LET w1   == [w EXCEPT !.s.cfgkey = key]
        data == IF w.st.exists THEN w.st.data ELSE EmptyDict
    IN  IF (save = "YAMLError" /\ w.st.exists) \/ save = "PermissionError"
        THEN [w1 EXCEPT !.en.faults = @ - 1]
        ELSE [Note(w1, "saved", key) EXCEPT
                  !.st = [exists |-> TRUE, data |-> DictSet(data, "client_key", key)]]

\* TVController._save_key; `save` is the outcome of the file I/O
_save_key(w, key, save) ==
    LET w1   == [w EXCEPT !.s.cfgkey = key]
        data == IF w.st.exists THEN w.st.data ELSE EmptyDict
    IN  IF save = "YAMLError" /\ w.st.exists THEN Fault(w1, save)
        ELSE IF save = "PermissionError" THEN Fault(w1, save)
        ELSE [Note(w1, "saved", key) EXCEPT
                  !.st = [exists |-> TRUE, data |-> DictSet(data, "client_key", key)]]

\* a connect that saves a new key and goes on holding the old one
connect_done_keeping_key(w, o) ==
    IF o.res # "ok" THEN Fault(w, o.res)
    ELSE LET w0 == Note(SetConn(w, TRUE), "connected", o.key)
             w1 == IF o.key # Cur(w).key
                   THEN [w0 EXCEPT !.en.rekeys = @ - 1]
                   ELSE w0
         IN  IF o.key # NoKey /\ o.key # Cur(w).key
             THEN _save_key(Note(w1, "new_key", o.key), o.key, o.save)
             ELSE w1

\* TVController.connect after `await self.client.connect()` resumes
connect_done(w, o) ==
    IF o.res # "ok" THEN Fault(w, o.res)
    ELSE LET w0 == Note(SetConn(w, TRUE), "connected", o.key)
             w1 == IF o.key # Cur(w).key
                   THEN [w0 EXCEPT !.en.rekeys = @ - 1]
                   ELSE w0
         IN  IF o.key # NoKey /\ o.key # Cur(w).key
             THEN _save_key(Note(SetKey(w1, o.key), "new_key", o.key), o.key, o.save)
             ELSE w1

\* the index of the step after step i
SkipIndex(i) == i + 2
NextIndex(i) == i + 1

\* a run_sequence that returns after the last step
run_finish_connected(w) == Goto(w, "run_ok")

\* run_sequence, the end: disconnect when connected
run_finish(w) ==
    IF Cur(w).conn THEN Goto(Call(w, "disconnect", ""), "disconnect")
    ELSE Goto(w, "run_ok")

RECURSIVE run_loop(_, _)
RECURSIVE step_delay(_, _)

\* run_sequence, the loop from step i: issue its call, or finish
run_loop(w, i) ==
    IF i > Len(Sequence(w)) THEN run_finish(w)
    ELSE LET st == Sequence(w)[i] IN
         IF st.type = "APP"
         THEN [Call(w, "launch_app", st.value) EXCEPT !.s.pc = "step", !.s.idx = i]
         ELSE IF st.type = "BTN"
         THEN [Call(w, "button", st.value) EXCEPT !.s.pc = "step", !.s.idx = i]
         ELSE step_delay(w, i)

\* a loop that goes from a step's call straight to the next step
step_without_delay(w, i) == run_loop(w, NextIndex(i))

\* run_sequence, after the call of step i: sleep when its delay is positive
step_delay(w, i) ==
    IF Sequence(w)[i].delay > 0
    THEN [w EXCEPT !.s.pc = "delay", !.s.idx = i]
    ELSE run_loop(w, NextIndex(i))

\* the body that follows `await self.connect()` in turn_off and run_sequence
after_connect(w) ==
    IF w.s.pc = "exc" THEN w
    ELSE IF w.s.act = "turn_off" THEN Goto(Call(w, "power_off", ""), "poweroff")
    ELSE run_loop(w, 1)

\* TVController.connect up to `await self.client.connect()`
connect_start(w) ==
    IF Cur(w).conn THEN after_connect(w)
    ELSE Goto(Call(w, "connect", ""), "connect")

\* a loop that goes on with the sequence when a step's call raised
step_done_going_on(w, res) ==
    IF res # "ok" THEN [step_delay(w, w.s.idx) EXCEPT !.en.faults = @ - 1]
    ELSE step_delay(w, w.s.idx)

\* run_sequence after a step's call resumes
step_done(w, res) ==
    IF res # "ok" THEN Fault(w, res) ELSE step_delay(w, w.s.idx)

\* the peer closes the channel abruptly while the client disconnects
PeerReset(w, res) ==
    IF res = "ConnectionResetError" THEN Note(w, "reset", "") ELSE w

\* a run_sequence that lets every error of disconnect propagate
disconnect_done_strict(w, res) ==
    IF res = "ok" THEN Goto(SetConn(w, FALSE), "run_ok") ELSE Fault(w, res)

\* run_sequence after `await self.client.disconnect()` resumes
disconnect_done(w, res) ==
    IF res = "ok" THEN Goto(SetConn(w, FALSE), "run_ok")
    ELSE IF IsInstance(res, {"ConnectionResetError"})
    THEN [Goto(w, "run_ok") EXCEPT !.en.faults = @ - 1]
    ELSE Fault(w, res)

\* turn_off after `await self.client.power_off()` resumes
power_off_done(w, res) ==
    IF res # "ok" THEN Fault(w, res) ELSE Goto(w, "off_ok")

----------------------------------------------------------------------------
(* core.py WakeOnLanService *)

\* one send_magic_packet and the sleep that follows it
send_packet(w, pkt) ==
    IF pkt # "ok" THEN Fault(w, pkt)
    ELSE [w EXCEPT !.s.pkts = @ + 1, !.s.pc = "wake_pace"]

\* a wake_device that does not look at the hardware address
wake_device_unchecked(w, mac, pkt) ==
    send_packet([w EXCEPT !.s.wakes = @ + 1, !.s.pkts = 0], pkt)

\* wake_device up to its first sleep
wake_device(w, mac, pkt) ==
    LET w1 == [w EXCEPT !.s.wakes = @ + 1, !.s.pkts = 0]
    IN  IF mac = NoMac THEN Raise(w1, "ValueError") ELSE send_packet(w1, pkt)

\* wake_device after a 0.5s sleep: the next packet, or the 12s settle
wake_pace_done(w, pkt) ==
    IF w.s.pkts < Repeat THEN send_packet(w, pkt) ELSE Goto(w, "wake_settle")

----------------------------------------------------------------------------
(* core.py TVController.execute_action_with_retry *)

\* the handler of the first attempt: classify, wake
except_first(w, e, pkt) ==
    IF ~is_tv_off_error(e) THEN Return(w, "failed")
    ELSE LET r == wake_device(FirstError(w, e), cfg.mac, pkt)
         IN  IF r.s.pc = "exc"
             THEN IF ExceptException(r.s.err) THEN Return(r, "wol_failed")
                  ELSE Goto(r, "raised")
             ELSE r

\* a retry handler that classifies and wakes again, like the first one
except_retry_again(w, e, pkt) ==
    IF ~is_tv_off_error(e) THEN Return(w, "woken_failed")
    ELSE LET r == wake_device(FirstError(w, e), cfg.mac, pkt)
         IN  IF r.s.pc = "exc" THEN Return(r, "wol_failed") ELSE r

\* the handler of the retry
except_retry(w, e, pkt) == Return(w, "woken_failed")

\* try blocks among which turn_off has none of its own
SiteWithoutOff(w) ==
    IF w.s.act = "turn_on" THEN "on"
    ELSE IF w.s.run >= 2 THEN "retry"
    ELSE IF w.s.wakes = 0 THEN "first"
    ELSE "wake"

\* the try block a raised exception is in
Site(w) ==
    IF w.s.act = "turn_off" THEN "off"
    ELSE IF w.s.act = "turn_on" THEN "on"
    ELSE IF w.s.run >= 2 THEN "retry"
    ELSE IF w.s.wakes = 0 THEN "first"
    ELSE "wake"

\* the except clauses
execute_except(w, pkt) ==
    LET e == w.s.err IN
    IF ~ExceptException(e) THEN Goto(w, "raised")
    ELSE CASE Site(w) = "off"   -> IF is_tv_off_error(e) THEN Return(w, "already_off")
                                   ELSE Return(w, "turn_off_failed")
           [] Site(w) = "on"    -> Return(w, "wake_failed")
           [] Site(w) = "first" -> except_first(w, e, pkt)
           [] Site(w) = "wake"  -> Return(w, "wol_failed")
           [] Site(w) = "retry" -> except_retry(w, e, pkt)

\* an orchestrator that goes on to the retry after every wake, the wake of
\* turn_on included
execute_resume_retrying(w, pkt) ==
    CASE w.s.pc = "exc"     -> execute_except(w, pkt)
      [] w.s.pc = "run_ok"  -> IF w.s.run = 1 THEN Return(w, "completed")
                               ELSE Return(w, "woken_completed")
      [] w.s.pc = "off_ok"  -> Return(w, "turned_off")
      [] w.s.pc = "wake_ok" -> Goto(w, "stabilize")
      [] OTHER              -> w

\* an orchestrator that retries as soon as wake has returned
execute_resume_at_once(w, pkt) ==
    CASE w.s.pc = "exc"     -> execute_except(w, pkt)
      [] w.s.pc = "run_ok"  -> IF w.s.run = 1 THEN Return(w, "completed")
                               ELSE Return(w, "woken_completed")
      [] w.s.pc = "off_ok"  -> Return(w, "turned_off")
      [] w.s.pc = "wake_ok" -> IF w.s.act = "turn_on" THEN Return(w, "wol_sent")
                               ELSE connect_start(TVController([w EXCEPT !.s.run = @ + 1]))
      [] OTHER              -> w

\* execute_action_with_retry from the point where an awaited call resumed
execute_resume(w, pkt) ==
    CASE w.s.pc = "exc"     -> execute_except(w, pkt)
      [] w.s.pc = "run_ok"  -> IF w.s.run = 1 THEN Return(w, "completed")
                               ELSE Return(w, "woken_completed")
      [] w.s.pc = "off_ok"  -> Return(w, "turned_off")
      [] w.s.pc = "wake_ok" -> IF w.s.act = "turn_on" THEN Return(w, "wol_sent")
                               ELSE Goto(w, "stabilize")
      [] OTHER              -> w

\* an orchestrator that does not look the name up in the catalog
execute_any_name(w, action_name, pkt) ==
    LET w1 == [w EXCEPT !.s.act = action_name] IN
    IF action_name = "turn_on"
    THEN execute_resume(wake_device(w1, cfg.mac, pkt), pkt)
    ELSE execute_resume(
             connect_start(TVController(TVConfig([w1 EXCEPT !.s.run = 1], cfg.client_key))),
             pkt)

\* execute_action_with_retry from its entry to the first suspension
execute_action_with_retry(w, action_name, pkt) ==
    LET w1 == [w EXCEPT !.s.act = action_name] IN
    IF action_name = "turn_off"
    THEN execute_resume(
             connect_start(TVController(TVConfig([w1 EXCEPT !.s.run = 1], cfg.client_key))),
             pkt)
    ELSE IF action_name = "turn_on"
    THEN execute_resume(wake_device(w1, cfg.mac, pkt), pkt)
    ELSE IF action_name \notin CatalogNames
    THEN Return(w1, "unknown")
    ELSE execute_resume(
             connect_start(TVController(TVConfig([w1 EXCEPT !.s.run = 1], cfg.client_key))),
             pkt)

\* a retry that runs the sequence on the controller of the first attempt
retry_same_controller(w) == connect_start([w EXCEPT !.s.run = @ + 1])

\* the retry after the 2s stabilisation: a new controller on the same TVConfig
retry_start(w) == connect_start(TVController([w EXCEPT !.s.run = @ + 1]))

----------------------------------------------------------------------------
(* main.py: the older TVController and WakeOnLanService the chat-bot imports *)

\* main.py run_sequence after `await self.client.disconnect()` resumes
main_disconnect_done(w, res) ==
    IF res = "ok" THEN Goto(SetConn(w, FALSE), "run_ok") ELSE Fault(w, res)

\* main.py wake_device up to its first sleep
main_wake_device(w, mac, pkt) ==
    send_packet([w EXCEPT !.s.wakes = @ + 1, !.s.pkts = 0], pkt)

----------------------------------------------------------------------------
(* telegram_bot.py TelegramBotService._execute_action *)

\* _create_tv_config and TVController(config), then run_sequence
bot_run(w, n) ==
    connect_start(TVController(TVConfig([w EXCEPT !.s.run = n], cfg.client_key)))

\* the handler `except WSMessageTypeError` of the first attempt
bot_except_first(w, pkt) ==
    IF cfg.mac = NoMac THEN Return(w, "no_mac")
    ELSE LET r == main_wake_device(FirstError(w, w.s.err), cfg.mac, pkt)
         IN  IF r.s.pc = "exc" THEN Return(r, "retry_failed") ELSE r

\* _execute_action from the point where an awaited call resumed
bot_resume(w, pkt) ==
    CASE w.s.act = "wake" ->
             IF w.s.pc = "exc" THEN Return(w, "wake_error")
             ELSE IF w.s.pc = "wake_ok" THEN Return(w, "wol_sent")
             ELSE w
      [] w.s.pc = "exc" ->
             IF w.s.run = 1 /\ w.s.wakes = 0
             THEN IF IsInstance(w.s.err, {"WSMessageTypeError"})
                  THEN bot_except_first(w, pkt)
                  ELSE Return(w, "error")
             ELSE Return(w, "retry_failed")
      [] w.s.pc = "run_ok"  -> IF w.s.run = 1 THEN Return(w, "completed")
                               ELSE Return(w, "woken_completed")
      [] w.s.pc = "wake_ok" -> bot_run(w, 2)
      [] OTHER              -> w

\* _execute_action from its entry to the first suspension
_execute_action(w, action_name) ==
    LET w1 == [w EXCEPT !.s.act = action_name] IN
    IF action_name \notin CatalogNames THEN Return(w1, "unknown")
    ELSE bot_run(w1, 1)

\* action_handler shows the status _execute_action returned and ends: its
\* locals are gone, the message stays
action_handler(w) ==
    IF w.s.pc = "ret"
    THEN [w EXCEPT !.s = [Answered(w.s, w.s.result, 0) EXCEPT !.chat = w.s.chat,
                                                             !.err = w.s.err]]
    ELSE w

\* an authorization for which an empty allow-list admits everybody
_is_authorized_open(chat_id) == cfg.allowed = {} \/ chat_id \in cfg.allowed

\* TelegramBotService._is_authorized
_is_authorized(chat_id) ==
    IF cfg.allowed = {} THEN FALSE
    ELSE IF chat_id \notin cfg.allowed THEN FALSE
    ELSE TRUE

\* the reply every handler gives an unauthorized sender
Denied(w, chat_id) ==
    [w EXCEPT !.s = [Answered(w.s, "denied", 0) EXCEPT !.chat = chat_id]]

\* start_command: the list of commands
start_command(w, chat_id) ==
    IF ~_is_authorized(chat_id) THEN Denied(w, chat_id)
    ELSE [w EXCEPT !.s = [Answered(w.s, "help", 0) EXCEPT !.chat = chat_id]]

\* wake_command from its entry to the first sleep of wake_device
wake_command(w, chat_id, pkt) ==
    IF ~_is_authorized(chat_id) THEN Denied(w, chat_id)
    ELSE LET w1 == [w EXCEPT !.s.chat = chat_id, !.s.act = "wake"]
         IN  IF cfg.mac = NoMac THEN action_handler(Return(w1, "no_mac"))
             ELSE action_handler(bot_resume(main_wake_device(w1, cfg.mac, pkt), pkt))

\* action_handler from its entry to the first suspension of _execute_action
action_command(w, chat_id, action_name) ==
    IF ~_is_authorized(chat_id) THEN Denied(w, chat_id)
    ELSE action_handler(_execute_action([w EXCEPT !.s.chat = chat_id], action_name))

----------------------------------------------------------------------------
(* web_server.py handle_action and _action_lock *)

\* a handler that never finds the gate held
GateNeverBusy(lk) == FALSE

\* `_action_lock.locked()`
GateBusy(lk) == lk.locked

\* a test and an acquisition with a suspension between them
SuspendsAfterCheck == TRUE

\* whether control returns to the event loop between the locked() test and
\* `async with _action_lock`: no await stands between them
SuspendsBeforeAcquire == FALSE

\* a gate that is given back only by an invocation that succeeded
ExitGateOnSuccess(w) ==
    IF w.s.result \in {"completed", "woken_completed", "turned_off", "wol_sent"}
    THEN [w EXCEPT !.lk.locked = FALSE]
    ELSE w

\* leaving `async with _action_lock`: asyncio.Lock.release
ExitGate(w) == [w EXCEPT !.lk.locked = FALSE]

\* the response of handle_action once execute_action_with_retry has ended
handle_return(w) ==
    IF w.s.pc = "ret"
    THEN [ExitGate(w) EXCEPT !.s = Answered(w.s, w.s.result, 200)]
    ELSE IF w.s.pc = "raised"
    THEN [ExitGate(w) EXCEPT !.s = Answered(w.s, "raised",
                                       IF IsInstance(w.s.err, {"ValueError"})
                                       THEN 400 ELSE 500)]
    ELSE w

\* the body of `async with _action_lock`, the gate being held
gated_call(w, pkt) ==
    handle_return(execute_action_with_retry(w, w.s.act, pkt))

\* `async with _action_lock`: asyncio.Lock.acquire takes a free lock nobody
\* waits for at once, and queues the caller otherwise
enter_gate(w, p, pkt) ==
    IF ~w.lk.locked /\ w.lk.waiters = <<>>
    THEN gated_call([w EXCEPT !.lk.locked = TRUE], pkt)
    ELSE [w EXCEPT !.lk.waiters = Append(@, p), !.s.pc = "queued"]

\* handle_action from its entry, or from where it was suspended before the
\* gate, to the first suspension inside execute_action_with_retry
handle_action(w, p, action_name, pkt) ==
    CASE w.s.pc = "idle" ->
             LET w1 == [w EXCEPT !.s.act = action_name] IN
             IF GateBusy(w.lk)
             THEN [w1 EXCEPT !.s = Answered(w1.s, "busy", 429)]
             ELSE IF SuspendsBeforeAcquire THEN Goto(w1, "checked")
             ELSE enter_gate(w1, p, pkt)
      [] w.s.pc = "checked" -> enter_gate(w, p, pkt)
      [] w.s.pc = "queued" ->
             gated_call([w EXCEPT !.lk.waiters = Tail(@), !.lk.locked = TRUE], pkt)

----------------------------------------------------------------------------
(* The caller's side of a resumed invocation *)

\* a direct caller of execute_action_with_retry keeps what it returns
direct_call(w) ==
    IF w.s.pc = "ret" THEN Goto(w, "done")
    ELSE IF w.s.pc = "raised" THEN [w EXCEPT !.s.pc = "done", !.s.result = "raised"]
    ELSE w

UsesCore(w) == w.s.front \in {"core", "http"}

Orchestrate(p, w, pkt) ==
    CASE Front(p) = "core" -> direct_call(execute_resume(w, pkt))
      [] Front(p) = "http" -> handle_return(execute_resume(w, pkt))
      [] Front(p) = "bot"  -> action_handler(bot_resume(w, pkt))

Commit(p, w) ==
    /\ w.en.faults >= 0
    /\ w.en.rekeys >= 0
    /\ inv' = [inv EXCEPT ![p] = w.s]
    /\ store' = w.st
    /\ lock' = w.lk
    /\ env' = w.en
    /\ UNCHANGED cfg

Outcomes(kinds) == {"ok"} \cup kinds
PktOutcomes == Outcomes(SendErrKinds)

----------------------------------------------------------------------------
(* Actions *)

\* the outcomes of a send_magic_packet the step may reach
PktFor(reaches) == IF reaches THEN PktOutcomes ELSE {"ok"}

\* a caller awaits execute_action_with_retry(action_name, config)
Invoke(p) ==
    /\ inv[p].pc = "idle"
    /\ \E a \in ActionNames :
       \E pkt \in PktFor(a = "turn_on") :
           Commit(p, direct_call(execute_action_with_retry(World(p), a, pkt)))

\* a POST /api/action/{name} arrives, or a handler suspended before the gate
\* resumes (the lock's first waiter resumes once the lock is free)
HandleAction(p) ==
    /\ inv[p].pc \in {"idle", "checked", "queued"}
    /\ inv[p].pc = "queued" => ~lock.locked /\ Head(lock.waiters) = p
    /\ \E a \in ActionNames :
       \E pkt \in PktFor(a = "turn_on") :
           /\ inv[p].pc # "idle" => a = inv[p].act
           /\ Commit(p, handle_action(World(p), p, a, pkt))

\* the chat-bot receives /start, /wake or the command of a catalog action
BotCommand(p) ==
    /\ inv[p].pc = "idle"
    /\ \E chat_id \in ChatIds :
       \E cmd \in CatalogNames \cup {"start", "wake"} :
       \E pkt \in PktFor(cmd = "wake") :
           Commit(p, CASE cmd = "start" -> start_command(World(p), chat_id)
                       [] cmd = "wake"  -> wake_command(World(p), chat_id, pkt)
                       [] OTHER         -> action_command(World(p), chat_id, cmd))

\* `await self.client.connect()` resumes
ConnectDone(p) ==
    /\ inv[p].pc = "connect"
    /\ \E res \in Outcomes(ErrKinds) :
       \E key \in IF res = "ok" THEN Keys \cup {NoKey} ELSE {NoKey} :
       \E save \in IF res = "ok" /\ key \notin {NoKey, Cur(World(p)).key}
                   THEN Outcomes(SaveErrKinds) ELSE {"ok"} :
       \E pkt \in PktFor(res # "ok" \/ save # "ok") :
           Commit(p, Orchestrate(p,
               after_connect(connect_done(World(p),
                   [res |-> res, key |-> key, save |-> save])), pkt))

\* `await self.client.launch_app(value)` / `button(value)` resumes
StepDone(p) ==
    /\ inv[p].pc = "step"
    /\ \E res \in Outcomes(ErrKinds) :
       \E pkt \in PktFor(res # "ok") :
           Commit(p, Orchestrate(p, step_done(World(p), res), pkt))

\* `await asyncio.sleep(delay)` of a step resumes
DelayDone(p) ==
    /\ inv[p].pc = "delay"
    /\ Commit(p, Orchestrate(p, run_loop(World(p), NextIndex(inv[p].idx)), "ok"))

\* `await self.client.disconnect()` resumes
DisconnectDone(p) ==
    /\ inv[p].pc = "disconnect"
    /\ \E res \in Outcomes(ErrKinds) :
       \E pkt \in PktFor(res # "ok") :
           Commit(p, Orchestrate(p,
               IF UsesCore(World(p)) THEN disconnect_done(PeerReset(World(p), res), res)
               ELSE main_disconnect_done(PeerReset(World(p), res), res), pkt))

\* `await self.client.power_off()` resumes
PowerOffDone(p) ==
    /\ inv[p].pc = "poweroff"
    /\ \E res \in Outcomes(ErrKinds) :
           Commit(p, Orchestrate(p, power_off_done(World(p), res), "ok"))

\* the 0.5s sleep after a magic packet resumes
WakePaceDone(p) ==
    /\ inv[p].pc = "wake_pace"
    /\ \E pkt \in PktOutcomes :
           Commit(p, Orchestrate(p, wake_pace_done(World(p), pkt), pkt))

\* the 12s sleep of wake_device resumes, wake_device returns
WakeSettleDone(p) ==
    /\ inv[p].pc = "wake_settle"
    /\ Commit(p, Orchestrate(p, Goto(World(p), "wake_ok"), "ok"))

\* the 2s sleep before the retry resumes
StabilizeDone(p) ==
    /\ inv[p].pc = "stabilize"
    /\ Commit(p, Orchestrate(p, retry_start(World(p)), "ok"))

Resume(p) ==
    \/ ConnectDone(p)
    \/ StepDone(p)
    \/ DelayDone(p)
    \/ DisconnectDone(p)
    \/ PowerOffDone(p)
    \/ WakePaceDone(p)
    \/ WakeSettleDone(p)
    \/ StabilizeDone(p)

----------------------------------------------------------------------------
(* The states the program starts in *)

\* config.yml as load_config reads it, when it exists
FileOf(mac, key) ==
    IF key = NoKey THEN [x \in {"ip", "mac"} |-> IF x = "ip" THEN "tv" ELSE mac]
    ELSE [x \in {"ip", "mac", "client_key"} |->
             IF x = "ip" THEN "tv" ELSE IF x = "mac" THEN mac ELSE key]

InitWorld(faults, rekeys, observe) ==
    /\ inv = [p \in Procs |-> [Idle EXCEPT !.front = Front(p)]]
    /\ lock = [locked |-> FALSE, waiters |-> <<>>]
    /\ cfg \in [mac : Macs, client_key : {NoKey, "k1"}, allowed : {{1}}]
    /\ store \in {[exists |-> TRUE, data |-> FileOf(cfg.mac, cfg.client_key)],
                  [exists |-> FALSE, data |-> EmptyDict]}
    /\ env = [faults |-> faults, rekeys |-> rekeys, observe |-> observe]

(* One invocation of execute_action_with_retry *)

Init == InitWorld(MaxFaults, MaxRekeys, TRUE)

Next == \E p \in CoreProcs : Invoke(p) \/ Resume(p)

Spec == Init /\ [][Next]_vars

(* The web server: NumReq HTTP requests for POST /api/action/{name} *)

InitWeb == InitWorld(WebFaults, WebRekeys, FALSE) /\ cfg.client_key # NoKey /\ store.exists

NextWeb == \E p \in HttpProcs : HandleAction(p) \/ Resume(p)

SpecWeb == InitWeb /\ [][NextWeb]_vars

(* The web server while the device issues a new pairing key *)

InitKeys == InitWorld(KeyFaults, KeyRekeys, FALSE)

SpecKeys == InitKeys /\ [][NextWeb]_vars

(* The web server and the chat-bot, two processes on one device *)

InitFront ==
    InitWorld(FrontFaults, WebRekeys, FALSE) /\ cfg.client_key # NoKey /\ store.exists
        /\ cfg.mac # NoMac

NextFront ==
    \/ \E p \in {<<"http", 1>>} : HandleAction(p) \/ Resume(p)
    \/ \E p \in BotProcs : BotCommand(p) \/ Resume(p)

SpecFront == InitFront /\ [][NextFront]_vars

(* The chat-bot: its commands, from senders on and off the allow-list *)

InitBot ==
    /\ inv = [p \in Procs |-> [Idle EXCEPT !.front = Front(p)]]
    /\ lock = [locked |-> FALSE, waiters |-> <<>>]
    /\ cfg \in [mac : Macs, client_key : {NoKey, "k1"}, allowed : AllowLists]
    /\ store = [exists |-> TRUE, data |-> FileOf(cfg.mac, cfg.client_key)]
    /\ env = [faults |-> BotFaults, rekeys |-> 0, observe |-> FALSE]

\* the awaited calls a handler of the chat-bot resumes from
BotResume(p) ==
    \/ ConnectDone(p)
    \/ StepDone(p)
    \/ DelayDone(p)
    \/ DisconnectDone(p)
    \/ WakePaceDone(p)
    \/ WakeSettleDone(p)

NextBot == \E p \in BotProcs : BotCommand(p) \/ BotResume(p)

SpecBot == InitBot /\ [][NextBot]_vars

(* The key file: _save_key applied to every content of config.yml *)

StoreFields == {"ip", "mac", "client_key", "telegram"}
StoreValues == {"a", "b"}

\* the contents config.yml may have: absent, or a mapping of some fields
StoreContents ==
    {[exists |-> FALSE, data |-> EmptyDict]} \cup
    {[exists |-> TRUE, data |-> d] :
        d \in UNION {[D -> StoreValues] : D \in SUBSET StoreFields}}

InitSave ==
    /\ inv = [p \in Procs |-> [Idle EXCEPT !.front = Front(p)]]
    /\ lock = [locked |-> FALSE, waiters |-> <<>>]
    /\ cfg = [mac |-> NoMac, client_key |-> NoKey, allowed |-> {}]
    /\ store \in StoreContents
    /\ env = [faults |-> SaveFaults, rekeys |-> 0, observe |-> FALSE]

\* a controller saves the key the device reported
SaveKey(p) ==
    /\ inv[p].pc = "idle"
    /\ \E key \in Keys :
       \E save \in Outcomes(SaveErrKinds) :
           Commit(p, _save_key(World(p), key, save))

NextSave == \E p \in CoreProcs : SaveKey(p)

SpecSave == InitSave /\ [][NextSave]_vars

----------------------------------------------------------------------------
(* Properties of one invocation of execute_action_with_retry (Spec)        *)

Core == inv[<<"core", 1>>]

StatusStrings ==
    {"completed", "woken_completed", "failed", "wol_failed", "woken_failed",
     "unknown", "turned_off", "already_off", "turn_off_failed", "wol_sent",
     "wake_failed"}

Suspended(s) ==
    s.pc \in {"connect", "step", "delay", "disconnect", "poweroff",
              "wake_pace", "wake_settle", "stabilize"}

\* the calls a session received, in order
RECURSIVE CallsOf(_, _)
CallsOf(calls, sid) ==
    IF calls = <<>> THEN <<>>
    ELSE IF Head(calls).sid = sid
    THEN <<[op |-> Head(calls).op, val |-> Head(calls).val]>> \o CallsOf(Tail(calls), sid)
    ELSE CallsOf(Tail(calls), sid)

Prefix(a, b) == Len(a) <= Len(b) /\ a = SubSeq(b, 1, Len(a))

Btn(v) == [op |-> "button", val |-> v]

\* what the device is to receive for channel `digit`, written out
ChannelCalls(digit) ==
    << [op |-> "connect", val |-> ""],
       Btn("HOME"), [op |-> "launch_app", val |-> "cz.tmobile.tvgo"], Btn("RIGHT"),
       Btn("ENTER"), Btn(digit), Btn("ENTER"), Btn("ENTER"), Btn("RIGHT"), Btn("ENTER"),
       [op |-> "disconnect", val |-> ""] >>

ExpectedCalls(act) == IF act = "channel_1" THEN ChannelCalls("1") ELSE ChannelCalls("2")

\* C1: execute_action_with_retry never raises: whatever the action name and
\* whatever succeeds or raises among connect, the key save, the step calls,
\* power-off, disconnect and wake, the call is either still able to go on or
\* has ended by returning one of its status strings.
C1_NeverRaises ==
    /\ Core.result # "raised"
    /\ Core.pc = "done" => Core.result \in StatusStrings
    /\ Core.pc # "done" => (Core.pc = "idle" \/ Suspended(Core)) /\ ENABLED Next

C1_Witness ==
    /\ Core.pc = "done" /\ Core.result = "woken_failed"
    /\ Core.err = "ValueError" /\ Core.err1 = "WSMessageTypeError"

\* C2: in one invocation for a catalog action the sequence is run at most
\* twice and wake is invoked at most once; the second run happens only after
\* the one wake, which followed an unreachable-classified failure of the first
\* run, and a first run that so failed is always followed by the wake and, the
\* wake having succeeded, by the retry; a retry that fails ends the invocation
\* with the "woken but failed" status.
C2_OneRetry ==
    Core.act \in CatalogNames =>
        /\ Core.run <= 2 /\ Core.wakes <= 1 /\ Len(Core.sess) <= 2
        /\ Core.run = 2 => Core.wakes = 1 /\ Core.err1 # "none"
        /\ Core.err1 # "none" => Core.wakes = 1
        /\ (Core.pc = "done" /\ Core.wakes = 1)
               => (Core.run = 2 /\ Core.result \in {"woken_completed", "woken_failed"})
                  \/ (Core.run = 1 /\ Core.result = "wol_failed")
        /\ (Core.pc = "done" /\ Core.run = 2 /\ Core.err # "none")
               => Core.result = "woken_failed"

C2_Witness ==
    /\ Core.pc = "done" /\ Core.act = "channel_1" /\ Core.result = "woken_failed"
    /\ Core.err1 = "TimeoutError" /\ Core.err = "TimeoutError" /\ Core.run = 2

\* the error classes the specification calls "not unreachable", by name
NotUnreachable == {"ValueError", "YAMLError"}

\* C3: when the first attempt of a catalog action fails with an error that is
\* not classified unreachable, the invocation returns the failure status at
\* once: no wake is ever invoked after such an error, and the failure status
\* comes with no wake and with the one session of the first attempt.
C3_NoWakeOnOtherFailure ==
    Core.act \in CatalogNames =>
        /\ Core.wakes > 0 => Core.err1 \notin NotUnreachable \cup {"none"}
        /\ Core.result = "failed"
               => /\ Core.pc = "done" /\ Core.wakes = 0 /\ Core.run = 1
                  /\ Len(Core.sess) = 1 /\ Core.err \in NotUnreachable
        /\ (Core.pc = "done" /\ Core.run = 1 /\ Core.err \in NotUnreachable
               /\ Core.wakes = 0)
               => Core.result = "failed"

C3_Witness ==
    /\ Core.pc = "done" /\ Core.act = "channel_2" /\ Core.result = "failed"
    /\ Core.err = "ValueError" /\ Len(Core.calls) = 4

\* In the first attempt PermissionError comes from nowhere but the write of
\* the key file, so err1 = "PermissionError" says that the save failed.
\* C4: a failure to write the pairing key store is never treated as "device
\* unreachable": when the save of a newly observed key fails during connect,
\* no wake is invoked.
C4_SaveFailureNoWake ==
    Core.err1 = "PermissionError" => Core.wakes = 0

\* C5: a key-store write failure does not abort an otherwise-successful
\* sequence: when the only thing that fails in an invocation for a catalog
\* action is the save of the new key, every step of the sequence is issued in
\* that attempt and the invocation returns the success status.
C5_SaveFailureKeepsGoing ==
    (/\ Core.pc = "done" /\ Core.act \in CatalogNames
     /\ env.faults = MaxFaults - 1
     /\ Core.err1 = "PermissionError" /\ cfg.mac # NoMac)
        => /\ Core.result = "completed"
           /\ CallsOf(Core.calls, 1) = ExpectedCalls(Core.act)

\* C10: run_sequence issues the device calls in the sequence's order, one per
\* step: at every moment what a session has received is an initial part of
\* connect, the catalog's calls in order, disconnect; the number of step calls
\* issued is the index of the step in flight; and a completed attempt has
\* issued all of them (for channel_1 the 9 catalog calls).
C10_CallsInOrder ==
    Core.act \in CatalogNames =>
        /\ \A sid \in 1..Len(Core.sess) :
               Prefix(CallsOf(Core.calls, sid), ExpectedCalls(Core.act))
        /\ Core.pc \in {"step", "delay"}
               => Len(CallsOf(Core.calls, Len(Core.sess))) = 1 + Core.idx
        /\ Core.result = "completed"
               => CallsOf(Core.calls, 1) = ExpectedCalls(Core.act)
        /\ Core.result = "woken_completed"
               => CallsOf(Core.calls, 2) = ExpectedCalls(Core.act)

C10_Witness ==
    /\ Core.pc = "done" /\ Core.act = "channel_1" /\ Core.result = "completed"
    /\ Len(Core.calls) = 11 /\ Core.calls[6].val = "1"

----------------------------------------------------------------------------
(* Properties of the web server's command gate (SpecWeb)                   *)

Passed(s) == s.pc \notin {"idle", "done"}

\* C6: while the gate is held, a request that arrives is answered busy (429)
\* in the step of its arrival: it is not queued, it starts no call of
\* execute_action_with_retry, and it touches neither the gate nor the key
\* file, and nothing of the environment happens on its behalf.
C6_BusyWhileHeld ==
    [][\A p \in HttpProcs :
          (inv[p].pc = "idle" /\ lock.locked /\ inv'[p] # inv[p])
              => /\ inv'[p] = Answered(inv[p], "busy", 429)
                 /\ lock' = lock /\ store' = store /\ env' = env]_vars

C6_Witness ==
    \E p, q \in HttpProcs :
        /\ inv[p].pc = "stabilize" /\ lock.locked
        /\ inv[q].pc = "done" /\ inv[q].resp = 429

\* C7: at most one request is past the locked() test and not yet answered, so
\* at most one is inside execute_action_with_retry and none waits for the
\* lock; and whoever is past the test holds the lock.
C7_OneInsideGate ==
    /\ Cardinality({p \in HttpProcs : Passed(inv[p])}) <= 1
    /\ lock.waiters = <<>>
    /\ \A p \in HttpProcs : Passed(inv[p]) => Suspended(inv[p]) /\ lock.locked

C7_Witness ==
    \E p, q \in HttpProcs :
        /\ inv[p].pc = "step" /\ inv[p].idx = 5
        /\ inv[q].pc = "done" /\ inv[q].result = "busy"

\* C8: only one command sequence executes against the device at a time,
\* whichever front-end issued it.
C8_OneSequenceAtATime ==
    Cardinality({p \in Procs : Suspended(inv[p])}) <= 1

\* C9: the gate is released on every exit path of a gated request: it is held
\* only while a request is inside execute_action_with_retry, and a request
\* that arrives while none is inside is not answered busy.
C9_GateReleased ==
    /\ [](lock.locked => \E p \in HttpProcs : Suspended(inv[p]))
    /\ [][\A p \in HttpProcs :
             (inv[p].pc = "idle" /\ inv'[p] # inv[p]
                 /\ ~\E q \in HttpProcs : Suspended(inv[q]))
                 => inv'[p].resp # 429]_vars

C9_Witness ==
    \E p, q \in HttpProcs :
        /\ inv[p].pc = "done" /\ inv[p].result = "woken_failed"
        /\ inv[q].pc = "connect" /\ lock.locked

----------------------------------------------------------------------------
(* Properties of connect, the steps and the synthetic actions (Spec)       *)

StepOps == {"button", "launch_app", "power_off"}

\* connect noted `ev` on session sid before the device call number i
NotedBefore(s, sid, ev, i) ==
    \E n \in 1..Len(s.notes) :
        s.notes[n].sid = sid /\ s.notes[n].ev = ev /\ s.notes[n].at < i

\* C11: no step call is issued on a session before connect has succeeded on
\* that session, and when that connect found a new pairing key the key was
\* written to the key file before the first step call; what was written is
\* the key that was found.
C11_ConnectAndSaveFirst ==
    /\ \A i \in 1..Len(Core.calls) :
           Core.calls[i].op \in StepOps =>
               /\ NotedBefore(Core, Core.calls[i].sid, "connected", i)
               /\ (\E n \in 1..Len(Core.notes) :
                       Core.notes[n].sid = Core.calls[i].sid /\ Core.notes[n].ev = "new_key")
                      => NotedBefore(Core, Core.calls[i].sid, "saved", i)
    /\ \A n \in 1..Len(Core.notes) :
           Core.notes[n].ev = "saved" =>
               /\ n > 1 /\ Core.notes[n - 1].ev = "new_key"
               /\ Core.notes[n - 1].val = Core.notes[n].val
               /\ Core.notes[n - 1].sid = Core.notes[n].sid
               /\ store.exists /\ "client_key" \in DOMAIN store.data
    /\ \A n \in 1..Len(Core.notes) :
           (Core.notes[n].ev = "saved" /\ \A m \in (n + 1)..Len(Core.notes) :
                                              Core.notes[m].ev # "saved")
               => store.data["client_key"] = Core.notes[n].val

C11_Witness ==
    /\ Core.pc = "step" /\ Core.idx = 1 /\ Len(Core.sess) = 1
    /\ Len(Core.notes) = 3 /\ Core.notes[3].ev = "saved" /\ Core.notes[3].val = "k2"

\* the error classes of the transport: refused, timed out, dropped, malformed
\* handshake
Unreachable == {"WSMessageTypeError", "TimeoutError", "ConnectionRefusedError",
                "ConnectionResetError"}

\* C12: turn_off never wakes and never retries: one attempt on one session and
\* no magic packet; it ends with "turned off", "already off" or the failure
\* status; a transport error of connect or of the power-off call gives
\* "already off", an error that is not unreachable gives the failure status,
\* and "turned off" is returned only when nothing failed and power_off was
\* the last call.
C12_TurnOff ==
    Core.act = "turn_off" =>
        /\ Core.wakes = 0 /\ Core.pkts = 0 /\ Core.run = 1 /\ Len(Core.sess) = 1
        /\ Core.pc \in {"connect", "poweroff", "done"}
        /\ Core.pc = "done" =>
               /\ Core.result \in {"turned_off", "already_off", "turn_off_failed"}
               /\ Core.err \in Unreachable => Core.result = "already_off"
               /\ Core.err \in NotUnreachable => Core.result = "turn_off_failed"
               /\ Core.err = "none" <=> Core.result = "turned_off"
               /\ Core.result = "turned_off" =>
                      Core.calls[Len(Core.calls)].op = "power_off"

C12_Witness ==
    /\ Core.act = "turn_off" /\ Core.pc = "done" /\ Core.result = "already_off"
    /\ Core.err = "TimeoutError" /\ Len(Core.calls) = 2

\* C13: a name that is neither turn_on, turn_off nor in the catalog ends at
\* once with the "unknown action" status: no controller is created, no device
\* call is issued, no wake is invoked, no attempt is started and the key file
\* is left alone.
C13_UnknownAction ==
    (Core.pc # "idle" /\ Core.act \notin {"turn_on", "turn_off", "channel_1", "channel_2"}) =>
        /\ Core.pc = "done" /\ Core.result = "unknown"
        /\ Core.sess = <<>> /\ Core.calls = <<>> /\ Core.notes = <<>>
        /\ Core.wakes = 0 /\ Core.pkts = 0 /\ Core.run = 0
        /\ env.faults = MaxFaults /\ env.rekeys = MaxRekeys

C13_Witness ==
    Core.act = "channel_9" /\ Core.pc = "done" /\ Core.result = "unknown"

\* C15: turn_on only invokes wake, once: it creates no controller and issues
\* no connect, step, power-off or disconnect call; it ends with "sent" exactly
\* when all the packets were sent and nothing was raised, and with the wake
\* failure status otherwise.
C15_TurnOnOnlyWakes ==
    Core.act = "turn_on" =>
        /\ Core.sess = <<>> /\ Core.calls = <<>> /\ Core.notes = <<>> /\ Core.run = 0
        /\ Core.wakes = 1
        /\ Core.pc \in {"wake_pace", "wake_settle", "done"}
        /\ Core.pc = "done" =>
               /\ Core.result \in {"wol_sent", "wake_failed"}
               /\ Core.result = "wol_sent" <=> Core.err = "none"
               /\ Core.result = "wol_sent" => Core.pkts = 3

C15_Witness ==
    /\ Core.act = "turn_on" /\ Core.pc = "done" /\ Core.result = "wake_failed"
    /\ Core.pkts = 2 /\ Core.err = "PermissionError"

Last(seq) == seq[Len(seq)]

\* C14: the retry runs on a controller of its own.  The second controller
\* exists only once wake has returned (all packets sent) and the retry has
\* begun; what it receives begins with connect; the device calls are grouped
\* by controller, the first one's before the second one's; every call issued
\* during the retry goes to the second controller; and once the failure of
\* the first attempt has been observed the first controller receives nothing
\* more and is not touched.
C14_RetryOnNewSession ==
    /\ [](Core.act \in CatalogNames =>
            /\ Len(Core.sess) = 2 <=> Core.run = 2
            /\ Core.run = 2 => Core.wakes = 1 /\ Core.pkts = 3
            /\ CallsOf(Core.calls, 2) # <<>> => Head(CallsOf(Core.calls, 2)).op = "connect"
            /\ \A i, j \in 1..Len(Core.calls) :
                   i < j => Core.calls[i].sid <= Core.calls[j].sid)
    /\ [][LET s == inv[<<"core", 1>>]
              s2 == inv'[<<"core", 1>>]
          IN  /\ (s2.run = 2 /\ s2.calls # s.calls)
                     => Len(s2.calls) = Len(s.calls) + 1 /\ Last(s2.calls).sid = 2
              /\ s.err1 # "none"
                     => /\ CallsOf(s2.calls, 1) = CallsOf(s.calls, 1)
                        /\ s2.sess[1] = s.sess[1]]_vars

C14_Witness ==
    /\ Core.pc = "step" /\ Core.run = 2 /\ Core.idx = 2
    /\ Len(CallsOf(Core.calls, 1)) = 4 /\ Len(CallsOf(Core.calls, 2)) = 3
    /\ Core.sess[1].conn /\ Core.sess[2].conn

\* the delays of the catalog's sequences in tenths of a second, written out
CatalogDelays == <<10, 100, 10, 10, 10, 10, 10, 10, 0>>

\* C16: in a catalog sequence the coroutine sleeps after a step's call exactly
\* when the step's delay is positive: a step whose call succeeded is followed
\* by its sleep, with no call issued meanwhile, when its delay is positive,
\* and never by a sleep when it is zero; a sleep is that of a step with a
\* positive delay and is followed by the call of the next step and nothing
\* else; and the call of a step other than the first is issued only when the
\* sleep of the step before it ends, or from that step's call when its delay
\* is zero.
C16_DelayBetweenSteps ==
    /\ [](Core.pc = "delay" => CatalogDelays[Core.idx] > 0)
    /\ [][LET s == inv[<<"core", 1>>]
              s2 == inv'[<<"core", 1>>]
              issued == /\ Len(s2.calls) = Len(s.calls) + 1
                        /\ Last(s2.calls).op \in {"button", "launch_app"}
          IN  (s.act \in CatalogNames /\ s2 # s) =>
              /\ (s.pc = "step" /\ env' = env) =>
                     IF CatalogDelays[s.idx] > 0
                     THEN s2.pc = "delay" /\ s2.idx = s.idx /\ s2.calls = s.calls
                     ELSE s2.pc = "disconnect"
              /\ s.pc = "step" => (s2.pc = "delay" => CatalogDelays[s.idx] > 0)
              /\ s.pc = "delay" =>
                     s2.pc = "step" /\ s2.idx = s.idx + 1 /\ issued /\ s2.run = s.run
              /\ (issued /\ s2.idx > 1) =>
                     /\ s.idx = s2.idx - 1
                     /\ \/ s.pc = "delay" /\ CatalogDelays[s.idx] > 0
                        \/ s.pc = "step" /\ CatalogDelays[s.idx] = 0]_vars

C16_Witness ==
    /\ Core.pc = "delay" /\ Core.idx = 2 /\ Core.run = 1
    /\ Last(Core.calls).op = "launch_app"

\* C17: with an empty hardware address wake_device raises its configuration
\* error before any packet is sent and before any sleep: turn_on then ends
\* with the wake failure status naming that error, and a catalog action whose
\* first attempt failed with a transport error ends with the "wake failed"
\* status naming it, with no stabilisation wait, no second attempt and no
\* second controller.
C17_NoAddressNoWake ==
    cfg.mac = "" =>
        /\ Core.pkts = 0
        /\ Core.pc \notin {"wake_pace", "wake_settle", "stabilize"}
        /\ Core.run <= 1 /\ Len(Core.sess) <= 1
        /\ Core.act = "turn_on" =>
               Core.pc = "done" /\ Core.result = "wake_failed" /\ Core.err = "ValueError"
        /\ (Core.act \in CatalogNames /\ Core.pc = "done" /\ Core.err1 \in Unreachable) =>
               Core.result = "wol_failed" /\ Core.err = "ValueError" /\ Core.wakes = 1
        /\ Core.wakes = 1 => Core.pc = "done" /\ Core.err = "ValueError"

C17_Witness ==
    /\ cfg.mac = "" /\ Core.act = "channel_1" /\ Core.pc = "done"
    /\ Core.result = "wol_failed" /\ Core.err1 = "ConnectionRefusedError"
    /\ Len(Core.calls) = 1

\* C19: a step whose call raises ends its run: in the step in which the
\* exception arrives no device call is issued, the run's controller receives
\* no call ever after, and the exception reaches the orchestrator, which
\* either names it in the status it returns or goes on to the wake; the calls
\* already issued stay issued (the record of calls only grows).
C19_StepFailureAborts ==
    [][LET s == inv[<<"core", 1>>]
           s2 == inv'[<<"core", 1>>]
       IN  /\ Prefix(s.calls, s2.calls)
           /\ (s.act \in CatalogNames /\ s.pc = "step" /\ env'.faults < env.faults) =>
                  /\ s2.calls = s.calls /\ s2.sess = s.sess
                  /\ s2.pc \in {"done", "wake_pace"}
                  /\ s2.pc = "wake_pace" => s2.err1 \in Unreachable /\ s.run = 1
                  /\ s2.pc = "done" =>
                         /\ s2.result \in {"failed", "wol_failed", "woken_failed"}
                         /\ s2.err # "none"
           /\ (s.act \in CatalogNames /\ s.wakes = 1) =>
                  CallsOf(s2.calls, 1) = CallsOf(s.calls, 1)
           /\ s.pc = "done" => s2.calls = s.calls]_vars

C19_Witness ==
    /\ Core.act = "channel_2" /\ Core.pc = "done" /\ Core.result = "failed"
    /\ Core.err = "ValueError" /\ Len(Core.calls) = 6 /\ Core.idx = 5

\* C20: the retry comes strictly after the wake: the stabilisation wait is
\* entered only from the end of wake's settle sleep, all packets sent, and the
\* second attempt begins only when that wait ends; the "woken" success status
\* is returned exactly by a second attempt that succeeded, and the plain
\* success status only when no wake was invoked.
C20_RetryAfterWake ==
    /\ [](Core.act \in CatalogNames =>
            /\ Core.pc = "stabilize" => Core.wakes = 1 /\ Core.pkts = 3 /\ Core.run = 1
            /\ Core.result = "woken_completed" =>
                   Core.wakes = 1 /\ Core.run = 2 /\ Core.err = "none"
            /\ Core.result = "completed" =>
                   Core.wakes = 0 /\ Core.run = 1 /\ Core.err1 = "none"
            /\ (Core.pc = "done" /\ Core.run = 2 /\ Core.err = "none") =>
                   Core.result = "woken_completed")
    /\ [][LET s == inv[<<"core", 1>>]
              s2 == inv'[<<"core", 1>>]
          IN  /\ (s2.pc = "stabilize" /\ s.pc # "stabilize") => s.pc = "wake_settle"
              /\ (s2.pc = "wake_settle" /\ s.pc # "wake_settle") =>
                     s.pc = "wake_pace" /\ s.pkts = 3
              /\ (s2.run = 2 /\ s.run # 2) =>
                     /\ s.pc = "stabilize"
                     /\ s2.pc = "connect" /\ Last(s2.calls) = [sid |-> 2, op |-> "connect", val |-> ""]
              /\ (s.act \in CatalogNames /\ s.pc = "stabilize" /\ s2 # s) => s2.run = 2]_vars

C20_Witness ==
    /\ Core.act = "channel_1" /\ Core.pc = "done" /\ Core.result = "woken_completed"
    /\ Core.err1 = "WSMessageTypeError" /\ Len(CallsOf(Core.calls, 2)) = 11

----------------------------------------------------------------------------
(* Properties of the web server's responses (SpecWeb)                      *)

\* C18: the command endpoint answers 200 for an action that completed, 400
\* for an action name that is unknown, and 429 exactly when it answers busy.
C18_StatusCodes ==
    \A p \in HttpProcs :
        inv[p].pc = "done" =>
            /\ inv[p].result \in {"completed", "woken_completed", "turned_off", "wol_sent"}
                   => inv[p].resp = 200
            /\ inv[p].result = "unknown" => inv[p].resp = 400
            /\ inv[p].result = "busy" <=> inv[p].resp = 429

----------------------------------------------------------------------------
(* Properties of the end of a run and of the pairing key (Spec)            *)

\* connect noted `ev` on session sid
Noted(s, sid, ev) ==
    \E n \in 1..Len(s.notes) : s.notes[n].sid = sid /\ s.notes[n].ev = ev

HasCall(s, sid, op) ==
    \E i \in 1..Len(s.calls) : s.calls[i].sid = sid /\ s.calls[i].op = op

\* C21: when execute_action_with_retry has returned for a catalog action,
\* every controller of the invocation that had connected has been asked to
\* disconnect, so none is left connected.
C21_DisconnectAfterFailure ==
    (Core.pc = "done" /\ Core.act \in CatalogNames) =>
        \A sid \in 1..Len(Core.sess) :
            /\ Noted(Core, sid, "connected") => HasCall(Core, sid, "disconnect")
            /\ Core.sess[sid].conn => Noted(Core, sid, "reset")

\* C22: a run that has issued every step successfully asks the device to
\* disconnect before it returns: a success status comes with the full list of
\* calls on the run's controller, disconnect last, and that controller is no
\* longer connected unless the peer reset the channel during the close.
C22_DisconnectOnCompletion ==
    /\ Core.result = "completed" =>
           /\ Last(CallsOf(Core.calls, 1)).op = "disconnect"
           /\ Len(CallsOf(Core.calls, 1)) = 11
           /\ Core.sess[1].conn => Noted(Core, 1, "reset")
    /\ Core.result = "woken_completed" =>
           /\ Last(CallsOf(Core.calls, 2)).op = "disconnect"
           /\ Len(CallsOf(Core.calls, 2)) = 11
           /\ Core.sess[2].conn => Noted(Core, 2, "reset")
    /\ (Core.act \in CatalogNames /\ Core.pc = "disconnect") =>
           /\ Core.idx = 9 /\ Core.sess[Len(Core.sess)].conn
           /\ Len(CallsOf(Core.calls, Len(Core.sess))) = 11

C22_Witness ==
    /\ Core.pc = "done" /\ Core.result = "completed" /\ Core.act = "channel_2"
    /\ ~Core.sess[1].conn /\ Core.notes = <<[sid |-> 1, ev |-> "connected", val |-> "k1", at |-> 1]>>

\* C23: a connection reset raised by the final disconnect is not an error:
\* when the peer resets the close of the first attempt the invocation ends
\* at once with the plain success status, no wake, no second controller and no
\* error named; when it resets the close of the retry, with the "woken"
\* success status.
C23_ResetOnCloseIsBenign ==
    /\ Noted(Core, 1, "reset") =>
           /\ Core.pc = "done" /\ Core.result = "completed" /\ Core.err = "none"
           /\ Core.wakes = 0 /\ Core.pkts = 0 /\ Core.run = 1 /\ Len(Core.sess) = 1
           /\ Core.err1 = "none"
    /\ Noted(Core, 2, "reset") =>
           /\ Core.pc = "done" /\ Core.result = "woken_completed" /\ Core.err = "none"
           /\ Core.wakes = 1 /\ Core.run = 2

C23_Witness ==
    /\ Core.act = "channel_1" /\ Core.pc = "done" /\ Core.result = "completed"
    /\ Last(Core.notes).ev = "reset" /\ Len(Core.calls) = 11

\* C24: when connect returns after the channel reported a key other than the
\* one the controller held, the controller holds the reported key and the key
\* file holds it too; when the reported key is the held one nothing is
\* written and the held key stays.
C24_KeyAfterConnect ==
    [][LET s == inv[<<"core", 1>>]
           s2 == inv'[<<"core", 1>>]
           held == s.sess[Len(s.sess)].key
           reported == s2.notes[Len(s.notes) + 1].val
       IN  (s.pc = "connect" /\ Len(s2.notes) > Len(s.notes)) =>
               /\ s2.notes[Len(s.notes) + 1].ev = "connected"
               /\ (reported # held /\ reported # "None" /\ s2.pc \in {"step", "poweroff"}) =>
                      /\ s2.sess[Len(s.sess)].key = reported
                      /\ store'.exists /\ store'.data["client_key"] = reported
                      /\ s2.cfgkey = reported
               /\ reported = held =>
                      /\ store' = store /\ s2.sess[Len(s.sess)].key = held
                      /\ s2.cfgkey = s.cfgkey
                      /\ s2.pc \in {"step", "poweroff"}]_vars

C24_Witness ==
    /\ Core.pc = "step" /\ Core.idx = 1 /\ Core.run = 2
    /\ Core.sess[1].key = "k1" /\ Core.sess[2].key = "k2"
    /\ store.exists /\ store.data["client_key"] = "k2"

\* C29: when the first attempt has issued every step and the disconnect, no
\* wake is invoked and no second controller issues the steps again, whatever
\* the disconnect does; and no step is issued more than twice.
C29_NoRepeatAfterFullRun ==
    Core.act \in CatalogNames =>
        /\ Len(CallsOf(Core.calls, 1)) = 11 => Core.wakes = 0 /\ Len(Core.sess) = 1
        /\ Len(Core.calls) <= 22 /\ Len(Core.sess) <= 2

----------------------------------------------------------------------------
(* Properties of the key file (SpecSave)                                   *)

\* C26: a save that returns is a read-modify-write of the key file: the file
\* exists afterwards and holds the saved key in client_key; its fields are
\* those it had before (none, when there was no file) and client_key; every
\* other field keeps its value; and a save of the key the file already holds
\* changes nothing.
C26_SaveIsReadModifyWrite ==
    [][LET s == inv[<<"core", 1>>]
           s2 == inv'[<<"core", 1>>]
           k == s2.cfgkey
           before == IF store.exists THEN DOMAIN store.data ELSE {}
       IN  (s.pc = "idle" /\ s2.pc = "idle") =>
               /\ k \in {"k1", "k2"}
               /\ store'.exists
               /\ DOMAIN store'.data = before \cup {"client_key"}
               /\ store'.data["client_key"] = k
               /\ \A f \in before \ {"client_key"} : store'.data[f] = store.data[f]
               /\ (store.exists /\ "client_key" \in before /\ store.data["client_key"] = k)
                      => store' = store]_vars

C26_Witness ==
    /\ Core.pc = "idle" /\ Core.cfgkey = "k2"
    /\ store.exists /\ DOMAIN store.data = {"ip", "mac", "client_key", "telegram"}
    /\ store.data["client_key"] = "k2" /\ store.data["ip"] = "a" /\ store.data["mac"] = "b"

----------------------------------------------------------------------------
(* Properties of the pairing key across requests (SpecKeys)                *)

\* C25: the persisted pairing key is read when a controller is created: the
\* first controller of a request is created holding the key the key file
\* holds at that moment.
C25_SessionReadsStoredKey ==
    \A p \in HttpProcs :
        (/\ inv[p].pc = "connect" /\ Len(inv[p].sess) = 1
         /\ store.exists /\ "client_key" \in DOMAIN store.data)
            => inv[p].sess[1].key = store.data["client_key"]

----------------------------------------------------------------------------
(* Properties of the chat-bot (SpecBot)                                    *)

\* C27: the chat-bot decides as the orchestrator does between waking and
\* surfacing at once: it answers with the error of the first attempt, without
\* a wake, only when that error is one the orchestrator surfaces at once.
C27_SameFailurePolicy ==
    \A p \in BotProcs :
        (inv[p].pc = "done" /\ inv[p].result = "error") => inv[p].err \in NotUnreachable

\* C28: a sender who is not on the allow-list, and every sender when the
\* list is empty, gets the denial and nothing else happens: the handler has
\* answered "denied" in the step of the command, with no controller, no
\* device call, no wake and no packet, and the step changes neither the key
\* file nor anything of the environment; and the denial goes to nobody who is
\* on the list.
C28_UnauthorizedDenied ==
    /\ [](\A p \in BotProcs :
            inv[p].pc # "idle" =>
                IF inv[p].chat \in cfg.allowed
                THEN inv[p].result # "denied"
                ELSE /\ inv[p].pc = "done" /\ inv[p].result = "denied"
                     /\ inv[p].sess = <<>> /\ inv[p].calls = <<>>
                     /\ inv[p].wakes = 0 /\ inv[p].pkts = 0 /\ inv[p].run = 0)
    /\ [][\A p \in BotProcs :
             inv'[p].chat \notin cfg.allowed =>
                 store' = store /\ env' = env /\ lock' = lock]_vars

C28_Witness ==
    \E p \in BotProcs :
        /\ cfg.allowed = {} /\ inv[p].chat = 1
        /\ inv[p].pc = "done" /\ inv[p].result = "denied"

====
